---- MODULE Spec2Model ----
(***************************************************************************)
(* Model of datalad/customremotes/ria_utils.py: the RIA store helpers      *)
(* get_layout_locations, verify_ria_url, create_store, create_ds_in_store. *)
(*                                                                         *)
(* A Python str is a sequence of one-character strings, a Path is a        *)
(* sequence of components (each a str).  An optional value is a sequence   *)
(* of length 0 (None / no such file) or 1.                                 *)
(***************************************************************************)
EXTENDS Integers, Sequences, FiniteSets, TLC

VARIABLES
    backend,    \* "local" (LocalIO) or "remote" (SSHRemoteIO): what `io` is
    ioFS,       \* the filesystem the io object operates on
    localFS,    \* the filesystem of the machine running the code, when io is remote
    callers,    \* the callers that issue calls (one: calls in sequence; two: overlapping)
    proc,       \* per caller: the call in progress, its position and its outcome
    calls,      \* number of calls begun so far
    failures,   \* number of io failures that have happened so far
    stamped,    \* history: per location, the version the last successful stamp write wrote
    overwrote,  \* history: a stamp write replaced a stamp recording another version
    url,        \* verify_ria_url: the url argument
    cfg,        \* verify_ria_url: the rewrite configuration
    decoded     \* verify_ria_url: the outcome (<<>> before the call)

vars == <<backend, ioFS, localFS, callers, proc, calls, failures, stamped,
          overwrote, url, cfg, decoded>>

fsVars == <<backend, ioFS, localFS, callers, proc, calls, failures, stamped,
            overwrote>>
urlVars == <<url, cfg, decoded>>

----------------------------------------------------------------------------
(* Bounds *)

MaxCalls == 2
MaxFailures == 1

Callers == {"a", "b"}

----------------------------------------------------------------------------
(* Python str and Path primitives *)

Whitespace == {" ", "\n", "\t"}
Digits == {"0", "1", "2", "3", "4", "5", "6", "7", "8", "9"}

DigitValue(c) ==
    CASE c = "0" -> 0 [] c = "1" -> 1 [] c = "2" -> 2 [] c = "3" -> 3
      [] c = "4" -> 4 [] c = "5" -> 5 [] c = "6" -> 6 [] c = "7" -> 7
      [] c = "8" -> 8 [] c = "9" -> 9

\* s[:n]
Take(s, n) == SubSeq(s, 1, IF n < Len(s) THEN n ELSE Len(s))
\* s[n:]
Drop(s, n) == SubSeq(s, n + 1, Len(s))

\* s.startswith(prefix)
StartsWith(s, prefix) ==
    /\ Len(prefix) <= Len(s)
    /\ SubSeq(s, 1, Len(prefix)) = prefix

\* index of the first occurrence of character c in s, 0 when there is none
RECURSIVE FindFrom(_, _, _)
FindFrom(s, c, i) ==
    IF i > Len(s) THEN 0
    ELSE IF s[i] = c THEN i
    ELSE FindFrom(s, c, i + 1)

Find(s, c) == FindFrom(s, c, 1)

\* s.split(sep)[0]
SplitFirst(s, sep) ==
    IF Find(s, sep) = 0 THEN s ELSE SubSeq(s, 1, Find(s, sep) - 1)

RECURSIVE LStrip(_)
LStrip(s) ==
    IF s # <<>> /\ Head(s) \in Whitespace THEN LStrip(Tail(s)) ELSE s

RECURSIVE RStrip(_)
RStrip(s) ==
    IF s # <<>> /\ s[Len(s)] \in Whitespace
    THEN RStrip(SubSeq(s, 1, Len(s) - 1))
    ELSE s

\* s.strip()
Strip(s) == RStrip(LStrip(s))

RECURSIVE DecimalValue(_)
DecimalValue(s) ==
    IF s = <<>> THEN 0
    ELSE 10 * DecimalValue(SubSeq(s, 1, Len(s) - 1)) + DigitValue(s[Len(s)])

\* int(s) for a str: surrounding whitespace is ignored, a sign is allowed,
\* anything else than decimal digits raises ValueError (ok = FALSE).
IntOf(s) ==
    LET t == Strip(s)
        signed == t # <<>> /\ Head(t) \in {"+", "-"}
        d == IF signed THEN Tail(t) ELSE t
    IN IF d # <<>> /\ \A i \in 1..Len(d) : d[i] \in Digits
       THEN [ok |-> TRUE,
             value |-> IF signed /\ Head(t) = "-"
                       THEN 0 - DecimalValue(d) ELSE DecimalValue(d)]
       ELSE [ok |-> FALSE, value |-> 0]

\* path / name (joining an empty name leaves the path as it is)
Join(path, name) == IF name = <<>> THEN path ELSE Append(path, name)

\* a path and all its parents
Parents(path) == {SubSeq(path, 1, n) : n \in 1..Len(path)}

----------------------------------------------------------------------------
(* Names and constants of ria_utils.py *)

archives == <<"a", "r", "c", "h", "i", "v", "e", "s">>
annex == <<"a", "n", "n", "e", "x">>
objects == <<"o", "b", "j", "e", "c", "t", "s">>
error_logs_name == <<"e", "r", "r", "o", "r", "_", "l", "o", "g", "s">>
ria_layout_version ==
    <<"r", "i", "a", "-", "l", "a", "y", "o", "u", "t", "-",
      "v", "e", "r", "s", "i", "o", "n">>

known_versions_objt == {<<"1">>, <<"2">>}
known_versions_dst == {<<"1">>}

\* the store and the dataset every call of the model is about
BasePath == << <<"s", "t", "o", "r", "e">> >>
DsId == <<"a", "b", "c", "d", "e", "f">>

get_layout_locations(version, base_path, dsid) ==
    IF version = 1
    THEN LET dsgit_dir == Join(Join(base_path, Take(dsid, 3)), Drop(dsid, 3))
         IN [ok |-> TRUE,
             dsgit_dir |-> dsgit_dir,
             archive_dir |-> Join(dsgit_dir, archives),
             dsobj_dir |-> Join(Join(dsgit_dir, annex), objects)]
    ELSE [ok |-> FALSE, dsgit_dir |-> <<>>, archive_dir |-> <<>>,
          dsobj_dir |-> <<>>]

----------------------------------------------------------------------------
(* Filesystems and the io object (LocalIO / SSHRemoteIO) *)

StoreVersionFile == Join(BasePath, ria_layout_version)
ErrorLogs == Join(BasePath, error_logs_name)
DsLocations == get_layout_locations(1, BasePath, DsId)
DsVersionFile == Join(DsLocations.dsgit_dir, ria_layout_version)

FilePaths == {StoreVersionFile, DsVersionFile}

\* a filesystem: the directories that exist, and per file its content if it exists
EmptyFS == [dirs |-> {}, files |-> [f \in FilePaths |-> <<>>]]

exists(fs, path) ==
    \/ path \in fs.dirs
    \/ path \in FilePaths /\ fs.files[path] # <<>>

read_file(fs, path) == fs.files[path][1]

\* creates the directory and its missing parents
mkdir(fs, path) == [fs EXCEPT !.dirs = @ \cup Parents(path)]

write_file(fs, path, content) == [fs EXCEPT !.files[path] = <<content>>]

\* The filesystem that Path.exists() and Path.read_text() look at: the one of
\* the machine the code runs on, which is the io's filesystem only for LocalIO.
PathFS == IF backend = "local" THEN ioFS ELSE localFS

----------------------------------------------------------------------------
(* The version checks of create_store and create_ds_in_store *)

\* Mutant: the store version is looked up in the object-tree versions.
store_version_known_objt(version) == version \in known_versions_objt

\* line 123
store_version_known(version) == version \in known_versions_dst

\* Mutant: only the part before the first '|' is looked up.
obj_version_known_prefix(obj_version) ==
    SplitFirst(obj_version, "|") \in known_versions_objt

\* line 185
obj_version_known(obj_version) == obj_version \in known_versions_objt

\* lines 180-183: int(store_version) and get_layout_locations; a ValueError of
\* either is re-raised as UnknownLayoutVersion (ok = FALSE)
ds_layout(store_version) ==
    IF IntOf(store_version).ok
    THEN get_layout_locations(IntOf(store_version).value, BasePath, DsId)
    ELSE [ok |-> FALSE, dsgit_dir |-> <<>>, archive_dir |-> <<>>,
          dsobj_dir |-> <<>>]

\* lines 134 and 193: the version on record in a version file's content
existing_version(content) == Strip(SplitFirst(content, "|"))

\* lines 135 and 194: whether the version on record conflicts with the request
version_conflict(content, version) ==
    existing_version(content) # SplitFirst(version, "|")

\* Mutant: the conflict is not raised, the call goes on to stamp the store.
create_store_check_no_raise(content, version) ==
    IF version_conflict(content, version) THEN "continue" ELSE "return"

\* Mutant: no early return when the recorded version fits.
create_store_check_no_return(content, version) ==
    IF version_conflict(content, version) THEN "raise" ELSE "continue"

\* lines 135-143: create_store raises on a conflict and returns otherwise
create_store_check(content, version) ==
    IF version_conflict(content, version) THEN "raise" ELSE "return"

\* lines 194-199: create_ds_in_store raises on a conflict and goes on otherwise
create_ds_check(content, version) ==
    IF version_conflict(content, version) THEN "raise" ELSE "continue"

\* lines 147-148: the statements of create_store after the check, in order
create_store_order == <<"mkdir", "write">>

\* Mutant: the stamp is written first, the directories are made after it.
create_ds_order_stamp_first == <<"write", "mkdir", "mkdir2">>

\* Mutant: the directories are made and the stamp is never written.
create_ds_order_no_stamp == <<"mkdir", "mkdir2">>

\* lines 201-203: the statements of create_ds_in_store after the check, in order
create_ds_order == <<"mkdir", "mkdir2", "write">>

\* the statement that follows statement pc in the order ("done" after the last)
RECURSIVE After(_, _)
After(order, pc) ==
    IF Len(order) < 2 THEN "done"
    ELSE IF Head(order) = pc THEN order[2]
    ELSE After(Tail(order), pc)

First(order) == IF order = <<>> THEN "done" ELSE Head(order)

----------------------------------------------------------------------------
(* Callers *)

NoCall == [op |-> "none", version |-> <<>>, raised |-> "none", last |-> "none"]

\* op, version, store_version: the call and its arguments
\* pc: the statement the call is at ("idle" before the first call, "done"
\*     once the call has returned or raised)
\* found: what the existence check of the version file answered
\* content: what was read from the version file
\* raised: the exception that ended the call ("none": it returned)
\* reported: the existing version named in the conflict message
\* ops: the io and Path operations the call has made so far
\* before: history, the io's filesystem when the call began
\* prev: history, the caller's previous call, how it ended and the last
\*       operation it made
Idle ==
    [op |-> "none", pc |-> "idle", version |-> <<>>, store_version |-> <<>>,
     found |-> "unchecked", content |-> <<>>, raised |-> "none",
     reported |-> <<>>, ops |-> <<>>, before |-> EmptyFS, prev |-> NoCall]

Begun(c, op, version, store_version) ==
    [Idle EXCEPT !.op = op, !.version = version,
                 !.store_version = store_version,
                 !.before = ioFS,
                 !.prev = [op |-> proc[c].op, version |-> proc[c].version,
                           raised |-> proc[c].raised,
                           last |-> IF proc[c].ops = <<>> THEN "none"
                                    ELSE proc[c].ops[Len(proc[c].ops)]]]

\* the exception `what` propagates out of the call
Raise(p, what) == [p EXCEPT !.pc = "done", !.raised = what]

Did(p, op) == [p EXCEPT !.ops = Append(@, op)]

\* the outcome of the version check: raise the conflict, return, or go on
\* with the statements in `order`
AfterCheck(p, outcome, order) ==
    CASE outcome = "raise" ->
           [Raise(p, "ValueError") EXCEPT
                !.reported = <<existing_version(p.content[1])>>]
      [] outcome = "return" -> [p EXCEPT !.pc = "done"]
      [] outcome = "continue" -> [p EXCEPT !.pc = First(order)]

CanBegin(c) ==
    /\ c \in callers
    /\ proc[c].pc \in {"idle", "done"}
    /\ calls < MaxCalls

At(c, op, pc) ==
    /\ c \in callers
    /\ proc[c].op = op
    /\ proc[c].pc = pc

CanFail == failures < MaxFailures

\* history of a successful stamp write
StampWritten(c, version_file) ==
    /\ stamped' = [stamped EXCEPT ![version_file] = <<proc[c].version>>]
    /\ overwrote' =
         (\/ overwrote
          \/ /\ ioFS.files[version_file] # <<>>
             /\ existing_version(ioFS.files[version_file][1])
                  # existing_version(proc[c].version))

----------------------------------------------------------------------------
(* create_store(io, base_path, version), lines 104-148 *)

\* lines 122-129
create_store_begin(c, version) ==
    /\ CanBegin(c)
    /\ calls' = calls + 1
    /\ proc' = [proc EXCEPT ![c] =
         LET p == Begun(c, "create_store", version, <<>>)
         IN IF store_version_known(version)
            THEN [p EXCEPT !.pc = "exists"]
            ELSE Raise(p, "UnknownLayoutVersion")]
    /\ UNCHANGED <<backend, ioFS, localFS, callers, failures, stamped,
                   overwrote, urlVars>>

\* line 133: io.exists(version_file)
create_store_exists(c) ==
    /\ At(c, "create_store", "exists")
    /\ proc' = [proc EXCEPT ![c] =
         IF exists(ioFS, StoreVersionFile)
         THEN [Did(@, "exists") EXCEPT !.found = "present", !.pc = "read"]
         ELSE [Did(@, "exists") EXCEPT
                   !.found = "absent", !.pc = First(create_store_order)]]
    /\ UNCHANGED <<backend, ioFS, localFS, callers, calls, failures, stamped,
                   overwrote, urlVars>>

\* lines 134-143: io.read_file(version_file) and the conflict check
create_store_read(c) ==
    /\ At(c, "create_store", "read")
    /\ LET content == read_file(ioFS, StoreVersionFile)
           p == [Did(proc[c], "read_file") EXCEPT !.content = <<content>>]
       IN proc' = [proc EXCEPT ![c] =
            AfterCheck(p, create_store_check(content, p.version),
                       create_store_order)]
    /\ UNCHANGED <<backend, ioFS, localFS, callers, calls, failures, stamped,
                   overwrote, urlVars>>

\* line 147: io.mkdir(error_logs)
create_store_mkdir(c) ==
    /\ At(c, "create_store", "mkdir")
    /\ ioFS' = mkdir(ioFS, ErrorLogs)
    /\ proc' = [proc EXCEPT ![c] =
         [Did(@, "mkdir") EXCEPT !.pc = After(create_store_order, "mkdir")]]
    /\ UNCHANGED <<backend, localFS, callers, calls, failures, stamped,
                   overwrote, urlVars>>

\* line 147, io.mkdir raising
create_store_mkdir_fails(c) ==
    /\ At(c, "create_store", "mkdir")
    /\ CanFail
    /\ failures' = failures + 1
    /\ proc' = [proc EXCEPT ![c] = Raise(Did(@, "mkdir"), "IOError")]
    /\ UNCHANGED <<backend, ioFS, localFS, callers, calls, stamped,
                   overwrote, urlVars>>

\* line 148: io.write_file(version_file, version)
create_store_write(c) ==
    /\ At(c, "create_store", "write")
    /\ ioFS' = write_file(ioFS, StoreVersionFile, proc[c].version)
    /\ StampWritten(c, StoreVersionFile)
    /\ proc' = [proc EXCEPT ![c] =
         [Did(@, "write_file") EXCEPT
              !.pc = After(create_store_order, "write")]]
    /\ UNCHANGED <<backend, localFS, callers, calls, failures, urlVars>>

\* line 148, io.write_file raising
create_store_write_fails(c) ==
    /\ At(c, "create_store", "write")
    /\ CanFail
    /\ failures' = failures + 1
    /\ proc' = [proc EXCEPT ![c] = Raise(Did(@, "write_file"), "IOError")]
    /\ UNCHANGED <<backend, ioFS, localFS, callers, calls, stamped,
                   overwrote, urlVars>>

----------------------------------------------------------------------------
(* create_ds_in_store(io, base_path, dsid, obj_version, store_version),
   lines 151-203 *)

\* line 190
ds_version_file(store_version) ==
    Join(ds_layout(store_version).dsgit_dir, ria_layout_version)

\* lines 177-190
create_ds_begin(c, obj_version, store_version) ==
    /\ CanBegin(c)
    /\ calls' = calls + 1
    /\ proc' = [proc EXCEPT ![c] =
         LET p == Begun(c, "create_ds_in_store", obj_version, store_version)
         IN IF ~ds_layout(store_version).ok
            THEN Raise(p, "UnknownLayoutVersion")
            ELSE IF ~obj_version_known(obj_version)
            THEN Raise(p, "UnknownLayoutVersion")
            ELSE [p EXCEPT !.pc = "exists"]]
    /\ UNCHANGED <<backend, ioFS, localFS, callers, failures, stamped,
                   overwrote, urlVars>>

\* line 192: version_file.exists(), a Path method
create_ds_exists(c) ==
    /\ At(c, "create_ds_in_store", "exists")
    /\ proc' = [proc EXCEPT ![c] =
         IF exists(PathFS, ds_version_file(proc[c].store_version))
         THEN [Did(@, "Path.exists") EXCEPT
                   !.found = "present", !.pc = "read"]
         ELSE [Did(@, "Path.exists") EXCEPT
                   !.found = "absent", !.pc = First(create_ds_order)]]
    /\ UNCHANGED <<backend, ioFS, localFS, callers, calls, failures, stamped,
                   overwrote, urlVars>>

\* lines 193-199: version_file.read_text() and the conflict check
create_ds_read(c) ==
    /\ At(c, "create_ds_in_store", "read")
    /\ LET content ==
             read_file(PathFS, ds_version_file(proc[c].store_version))
           p == [Did(proc[c], "Path.read_text") EXCEPT !.content = <<content>>]
       IN proc' = [proc EXCEPT ![c] =
            AfterCheck(p, create_ds_check(content, p.version),
                       create_ds_order)]
    /\ UNCHANGED <<backend, ioFS, localFS, callers, calls, failures, stamped,
                   overwrote, urlVars>>

\* line 201: io.mkdir(archive_dir)
create_ds_mkdir_archive(c) ==
    /\ At(c, "create_ds_in_store", "mkdir")
    /\ ioFS' = mkdir(ioFS, ds_layout(proc[c].store_version).archive_dir)
    /\ proc' = [proc EXCEPT ![c] =
         [Did(@, "mkdir") EXCEPT !.pc = After(create_ds_order, "mkdir")]]
    /\ UNCHANGED <<backend, localFS, callers, calls, failures, stamped,
                   overwrote, urlVars>>

\* line 202: io.mkdir(dsobj_dir)
create_ds_mkdir_obj(c) ==
    /\ At(c, "create_ds_in_store", "mkdir2")
    /\ ioFS' = mkdir(ioFS, ds_layout(proc[c].store_version).dsobj_dir)
    /\ proc' = [proc EXCEPT ![c] =
         [Did(@, "mkdir") EXCEPT !.pc = After(create_ds_order, "mkdir2")]]
    /\ UNCHANGED <<backend, localFS, callers, calls, failures, stamped,
                   overwrote, urlVars>>

\* lines 201-202, io.mkdir raising
create_ds_mkdir_fails(c) ==
    /\ \/ At(c, "create_ds_in_store", "mkdir")
       \/ At(c, "create_ds_in_store", "mkdir2")
    /\ CanFail
    /\ failures' = failures + 1
    /\ proc' = [proc EXCEPT ![c] = Raise(Did(@, "mkdir"), "IOError")]
    /\ UNCHANGED <<backend, ioFS, localFS, callers, calls, stamped,
                   overwrote, urlVars>>

\* line 203: io.write_file(version_file, obj_version)
create_ds_write(c) ==
    /\ At(c, "create_ds_in_store", "write")
    /\ ioFS' = write_file(ioFS, ds_version_file(proc[c].store_version),
                          proc[c].version)
    /\ StampWritten(c, ds_version_file(proc[c].store_version))
    /\ proc' = [proc EXCEPT ![c] =
         [Did(@, "write_file") EXCEPT !.pc = After(create_ds_order, "write")]]
    /\ UNCHANGED <<backend, localFS, callers, calls, failures, urlVars>>

\* line 203, io.write_file raising
create_ds_write_fails(c) ==
    /\ At(c, "create_ds_in_store", "write")
    /\ CanFail
    /\ failures' = failures + 1
    /\ proc' = [proc EXCEPT ![c] = Raise(Did(@, "write_file"), "IOError")]
    /\ UNCHANGED <<backend, ioFS, localFS, callers, calls, stamped,
                   overwrote, urlVars>>

----------------------------------------------------------------------------
(* verify_ria_url(url, cfg), lines 57-101, with the two helpers it imports *)

\* index of the first character of s that is in the set cs, 0 when there is none
RECURSIVE FindAnyFrom(_, _, _)
FindAnyFrom(s, cs, i) ==
    IF i > Len(s) THEN 0
    ELSE IF s[i] \in cs THEN i
    ELSE FindAnyFrom(s, cs, i + 1)

\* index of the last occurrence of character c in s, 0 when there is none
RECURSIVE FindLastFrom(_, _, _)
FindLastFrom(s, c, i) ==
    IF i = 0 THEN 0
    ELSE IF s[i] = c THEN i
    ELSE FindLastFrom(s, c, i - 1)

\* datalad.config.rewrite_url: the longest `insteadof` prefix the url starts
\* with is replaced by its base; no match, or no single longest one, leaves
\* the url as it is
rewrite_url(config, u) ==
    LET matches == {r \in config : StartsWith(u, r.insteadof)}
        longest == {r \in matches :
                      \A q \in matches : Len(q.insteadof) <= Len(r.insteadof)}
    IN IF Cardinality(longest) = 1
       THEN LET r == CHOOSE r \in longest : TRUE
            IN r.base \o Drop(u, Len(r.insteadof))
       ELSE u

\* datalad.support.network.URL: the fields of a parsed url
\* (scheme ":" ["//" netloc] path ["?" query] ["#" fragment])
URL(u) ==
    LET colon == Find(u, ":")
        delim == FindAnyFrom(u, {"/", "?", "#"}, 1)
        hasScheme == colon > 1 /\ (delim = 0 \/ colon < delim)
        scheme == IF hasScheme THEN SubSeq(u, 1, colon - 1) ELSE <<>>
        rest == IF hasScheme THEN Drop(u, colon) ELSE u
        hash == Find(rest, "#")
        fragment == IF hash = 0 THEN <<>> ELSE Drop(rest, hash)
        nofrag == IF hash = 0 THEN rest ELSE SubSeq(rest, 1, hash - 1)
        qmark == Find(nofrag, "?")
        noquery == IF qmark = 0 THEN nofrag ELSE SubSeq(nofrag, 1, qmark - 1)
        hasNetloc == StartsWith(noquery, <<"/", "/">>)
        afterSlashes == Drop(noquery, 2)
        slash == Find(afterSlashes, "/")
        netloc == IF ~hasNetloc THEN <<>>
                  ELSE IF slash = 0 THEN afterSlashes
                  ELSE SubSeq(afterSlashes, 1, slash - 1)
        path == IF ~hasNetloc THEN noquery
                ELSE IF slash = 0 THEN <<>>
                ELSE Drop(afterSlashes, slash - 1)
        at == FindLastFrom(netloc, "@", Len(netloc))
        hostport == Drop(netloc, at)
    IN [scheme |-> scheme,
        hostname |-> SplitFirst(hostport, ":"),
        path |-> path,
        fragment |-> fragment]

ria_prefix == <<"r", "i", "a", "+">>
ssh == <<"s", "s", "h">>
file == <<"f", "i", "l", "e">>

\* Mutant: the protocol is not checked.
protocol_supported_any(protocol) == TRUE

\* line 97
protocol_supported(protocol) == protocol \in {ssh, file}

Invalid(why) ==
    [raised |-> "ValueError", why |-> why, host |-> <<>>, path |-> <<>>,
     url |-> <<>>]

verify_ria_url(u, config) ==
    IF u = <<>> THEN Invalid("Got no URL")
    ELSE LET rewritten == rewrite_url(config, u)
             url_ri == URL(rewritten)
             protocol == Drop(url_ri.scheme, 4)
         IN IF ~StartsWith(url_ri.scheme, ria_prefix)
            THEN Invalid("Missing ria+ prefix in final URL")
            ELSE IF url_ri.fragment # <<>>
            THEN Invalid("Unexpected fragment in RIA-store URL")
            ELSE IF ~protocol_supported(protocol)
            THEN Invalid("Unsupported protocol")
            ELSE [raised |-> "none", why |-> "",
                  host |-> IF protocol = ssh
                           THEN <<url_ri.hostname>> ELSE <<>>,
                  path |-> url_ri.path,
                  url |-> rewritten]

\* a call of verify_ria_url
verify(u, config) ==
    /\ decoded = <<>>
    /\ url = u
    /\ cfg = config
    /\ decoded' = <<verify_ria_url(u, config)>>
    /\ UNCHANGED <<fsVars, url, cfg>>

\* the urls and rewrite configurations the calls are given
Schemes ==
    {ria_prefix \o ssh, ria_prefix \o file, ria_prefix \o <<"f", "t", "p">>,
     ria_prefix, ssh, <<"h", "t", "t", "p">>, <<"a", "l">>,
     ria_prefix \o ssh \o <<"x">>}

Urls ==
    {sc \o <<":", "/", "/">> \o host \o <<"/", "p">> \o frag :
        sc \in Schemes,
        host \in {<<>>, <<"h">>, <<"u", "@", "h", ":", "2">>},
        frag \in {<<>>, <<"#", "f">>}}
    \cup {<<>>, <<"/", "p">>, ria_prefix \o ssh \o <<":", "/", "/", "h">>}

Configs ==
    {{},
     {[insteadof |-> <<"a", "l", ":">>, base |-> ria_prefix \o ssh \o <<":">>]},
     {[insteadof |-> ria_prefix, base |-> <<>>],
      [insteadof |-> <<"r">>, base |-> <<"x">>]},
     {[insteadof |-> <<"a", "l">>, base |-> ria_prefix \o file],
      [insteadof |-> <<"a", "l">>, base |-> ria_prefix \o ssh]}}

----------------------------------------------------------------------------
(* Arguments and initial states *)

\* the `version` arguments given to create_store
StoreArgs == {<<"1">>, <<"2">>, <<"1", "|", "c">>}

\* the `obj_version` arguments given to create_ds_in_store
ObjVersionArgs == {<<"1">>, <<"2">>, <<"9">>, <<"1", "|", "c">>}

\* the `store_version` arguments given to create_ds_in_store
StoreVersionArgs == {<<"1">>, <<"2">>, <<"0", "1">>, <<"x">>}

\* what a store location holds before the first call: nothing, or a stamp
\* left by an earlier initialisation (with or without its error_logs)
StoreLayouts ==
    {[dirs |-> {}, stamp |-> <<>>]}
    \cup {[dirs |-> Parents(ErrorLogs), stamp |-> <<s>>] :
            s \in {<<"1", "|", "c">>, <<"1", "\n">>, <<"2">>}}
    \cup {[dirs |-> {BasePath}, stamp |-> << <<"1">> >>]}

\* what a dataset location holds before the first call
DsLayouts ==
    {[dirs |-> {}, stamp |-> <<>>]}
    \cup {[dirs |-> Parents(DsLocations.archive_dir)
                      \cup Parents(DsLocations.dsobj_dir),
           stamp |-> <<s>>] :
            s \in {<<"1">>, <<"1", "|", "c">>, <<"2", "\n">>}}

FSOf(store, ds) ==
    [dirs |-> store.dirs \cup ds.dirs,
     files |-> [f \in FilePaths |->
                  IF f = StoreVersionFile THEN store.stamp ELSE ds.stamp]]

\* The machine running the code may hold a dataset of its own at the same path.
LocalLayouts ==
    {l \in DsLayouts : l.stamp \in {<<>>, << <<"1">> >>}}

InitCommon ==
    /\ backend \in {"local", "remote"}
    /\ proc = [c \in Callers |-> Idle]
    /\ calls = 0
    /\ failures = 0
    /\ stamped = [f \in FilePaths |-> <<>>]
    /\ overwrote = FALSE
    /\ url = <<>>
    /\ cfg = {}
    /\ decoded = <<>>

\* calls made one after the other, on any location
Init ==
    /\ InitCommon
    /\ callers = {"a"}
    /\ localFS \in IF backend = "local" THEN {EmptyFS}
                   ELSE {FSOf([dirs |-> {}, stamp |-> <<>>], l) :
                           l \in LocalLayouts}
    /\ ioFS \in {FSOf(s, d) : s \in StoreLayouts, d \in DsLayouts}

\* two callers whose calls overlap, on a location nothing has been made of
InitRace ==
    /\ InitCommon
    /\ callers = Callers
    /\ localFS = EmptyFS
    /\ ioFS = EmptyFS

Step(c) ==
    \/ \E version \in StoreArgs : create_store_begin(c, version)
    \/ create_store_exists(c)
    \/ create_store_read(c)
    \/ create_store_mkdir(c)
    \/ create_store_mkdir_fails(c)
    \/ create_store_write(c)
    \/ create_store_write_fails(c)
    \/ \E obj_version \in ObjVersionArgs, store_version \in StoreVersionArgs :
          create_ds_begin(c, obj_version, store_version)
    \/ create_ds_exists(c)
    \/ create_ds_read(c)
    \/ create_ds_mkdir_archive(c)
    \/ create_ds_mkdir_obj(c)
    \/ create_ds_mkdir_fails(c)
    \/ create_ds_write(c)
    \/ create_ds_write_fails(c)

Next == \E c \in Callers : Step(c)

Spec == Init /\ [][Next]_vars

SpecRace == InitRace /\ [][Next]_vars

\* verify_ria_url on its own: nothing is stored, every call stands alone
InitUrl ==
    /\ backend = "local"
    /\ ioFS = EmptyFS
    /\ localFS = EmptyFS
    /\ callers = {}
    /\ proc = [c \in Callers |-> Idle]
    /\ calls = 0
    /\ failures = 0
    /\ stamped = [f \in FilePaths |-> <<>>]
    /\ overwrote = FALSE
    /\ url \in Urls
    /\ cfg \in Configs
    /\ decoded = <<>>

NextUrl == \E u \in Urls, config \in Configs : verify(u, config)

SpecUrl == InitUrl /\ [][NextUrl]_vars

----------------------------------------------------------------------------
(* Properties *)

Done(c) == proc[c].pc = "done"

StoreCall(c) == Done(c) /\ proc[c].op = "create_store"
DsCall(c) == Done(c) /\ proc[c].op = "create_ds_in_store"

One == <<"1">>
Two == <<"2">>

\* the previous call of the caller was create_store(version) and it returned
AfterCreateStore(c, version) ==
    /\ proc[c].prev.op = "create_store"
    /\ proc[c].prev.version = version
    /\ proc[c].prev.raised = "none"

\* the version file an operation checks and stamps, and the directories it makes
VersionFileOf(op) ==
    IF op = "create_store" THEN StoreVersionFile ELSE DsVersionFile

DirsOf(op) ==
    IF op = "create_store" THEN {ErrorLogs}
    ELSE {DsLocations.archive_dir, DsLocations.dsobj_dir}

\* the call got past the checks of its arguments and met no io failure
Validated(c) ==
    /\ Done(c)
    /\ proc[c].raised # "UnknownLayoutVersion"
    /\ proc[c].raised # "IOError"

\* C1: once the store's version file exists, no step of any call (whatever
\* its arguments, whether it returns or raises) removes it or changes the part
\* of its content before the first '|'.
C1_StoreVersionImmutable ==
    [][ioFS.files[StoreVersionFile] # <<>> =>
         /\ ioFS'.files[StoreVersionFile] # <<>>
         /\ SplitFirst(ioFS'.files[StoreVersionFile][1], "|")
              = SplitFirst(ioFS.files[StoreVersionFile][1], "|")]_vars

\* C1 witness: a store stamped by create_store has been through a further
\* create_store call that found the stamp.
C1_Witness ==
    \E c \in Callers :
        /\ StoreCall(c)
        /\ proc[c].found = "present"
        /\ stamped[StoreVersionFile] = <<One>>
        /\ ioFS.files[StoreVersionFile] = <<One>>

\* C2: for a local and for a remote io alike, once create_ds_in_store has
\* stamped the dataset, a further create_ds_in_store call leaves the version
\* recorded in the stamp (as the io sees it) unchanged; a call that asks for
\* another known version (and meets no io failure) raises the version conflict
\* and writes nothing.
C2_DatasetVersionImmutable ==
    \A c \in Callers :
        /\ DsCall(c)
        /\ proc[c].prev.op = "create_ds_in_store"
        /\ proc[c].prev.raised = "none"
        /\ proc[c].before.files[DsVersionFile] # <<>>
        => /\ ioFS.files[DsVersionFile] # <<>>
           /\ SplitFirst(ioFS.files[DsVersionFile][1], "|")
                = SplitFirst(proc[c].before.files[DsVersionFile][1], "|")
           /\ /\ Validated(c)
              /\ SplitFirst(proc[c].before.files[DsVersionFile][1], "|")
                   # proc[c].version
              => /\ proc[c].raised = "ValueError"
                 /\ ioFS = proc[c].before

\* C3 as stated: create_store("1") followed by create_store("2") raises the
\* version conflict (ValueError), reporting the existing version "1".
C3_SecondVersionConflicts ==
    \A c \in Callers :
        StoreCall(c) /\ proc[c].version = Two /\ AfterCreateStore(c, One)
        => /\ proc[c].raised = "ValueError"
           /\ proc[c].reported = <<One>>

\* C3 amended: create_store("1") followed by create_store("2") raises
\* UnknownLayoutVersion and leaves the store as it was, stamped "1"; the
\* conflict error is what create_store with a known version raises when the
\* stamp found records another version, and it reports that version.
C3_SecondVersionUnknown ==
    \A c \in Callers :
        /\ StoreCall(c) /\ proc[c].version = Two /\ AfterCreateStore(c, One)
           => /\ proc[c].raised = "UnknownLayoutVersion"
              /\ ioFS = proc[c].before
              /\ ioFS.files[StoreVersionFile] # <<>>
              /\ existing_version(ioFS.files[StoreVersionFile][1]) = One
        /\ /\ StoreCall(c)
           /\ proc[c].version \in known_versions_dst
           /\ proc[c].before.files[StoreVersionFile] # <<>>
           /\ existing_version(proc[c].before.files[StoreVersionFile][1])
                # proc[c].version
           => /\ proc[c].raised = "ValueError"
              /\ proc[c].reported =
                   <<existing_version(
                       proc[c].before.files[StoreVersionFile][1])>>
              /\ ioFS = proc[c].before

\* C3 witness: create_store("2") has ended after a create_store("1") that
\* stamped the store.
C3_Witness ==
    \E c \in Callers :
        /\ StoreCall(c) /\ proc[c].version = Two /\ AfterCreateStore(c, One)
        /\ stamped[StoreVersionFile] = <<One>>
        /\ proc[c].raised = "UnknownLayoutVersion"

\* C4: a create_store call on a store whose version file records the
\* requested (known) version returns without error having made no mkdir and
\* no write: the filesystem is exactly as before the call, whether or not
\* error_logs exists; and a create_store call that follows a successful
\* create_store call with the same version succeeds and changes nothing.
C4_CreateStoreIdempotent ==
    \A c \in Callers :
        /\ /\ StoreCall(c)
           /\ proc[c].version \in known_versions_dst
           /\ proc[c].before.files[StoreVersionFile] # <<>>
           /\ existing_version(proc[c].before.files[StoreVersionFile][1])
                = proc[c].version
           => /\ proc[c].raised = "none"
              /\ proc[c].ops = <<"exists", "read_file">>
              /\ ioFS = proc[c].before
        /\ StoreCall(c) /\ AfterCreateStore(c, proc[c].version)
           => /\ proc[c].raised = "none"
              /\ ioFS = proc[c].before

\* C4 witness: the second of two successful create_store("1") calls has
\* returned, on a store that has its stamp but no error_logs directory.
C4_Witness ==
    \E c \in Callers :
        /\ StoreCall(c) /\ AfterCreateStore(c, One)
        /\ proc[c].version = One
        /\ proc[c].raised = "none"
        /\ ioFS.files[StoreVersionFile] # <<>>
        /\ ErrorLogs \notin ioFS.dirs

\* C5: create_ds_in_store raises UnknownLayoutVersion whenever store_version
\* is not the store layout 1 or obj_version is not "1" or "2", and
\* create_store whenever version is not "1"; it does so before any operation
\* on the storage, which is left as it was.
C5_UnknownVersionRejected ==
    \A c \in Callers :
        (\/ /\ DsCall(c)
            /\ \/ ~IntOf(proc[c].store_version).ok
               \/ IntOf(proc[c].store_version).value # 1
               \/ proc[c].version \notin {One, Two}
         \/ /\ StoreCall(c)
            /\ proc[c].version # One)
        => /\ proc[c].raised = "UnknownLayoutVersion"
           /\ proc[c].ops = <<>>
           /\ ioFS = proc[c].before

\* C5 witness: create_ds_in_store with obj_version "9" and store_version "1"
\* has been rejected on a dataset that is already stamped.
C5_Witness ==
    \E c \in Callers :
        /\ DsCall(c)
        /\ proc[c].version = <<"9">>
        /\ proc[c].store_version = One
        /\ proc[c].raised = "UnknownLayoutVersion"
        /\ ioFS.files[DsVersionFile] # <<>>

\* C6: when the version file of the location holds "<v>|<config>", a call of
\* create_store or create_ds_in_store with a known version (that meets no io
\* failure) raises the version conflict exactly when <v> differs from the
\* requested version's part before its first '|'.
C6_PipeSuffixTolerance ==
    \A c \in Callers :
        LET stamp == proc[c].before.files[VersionFileOf(proc[c].op)]
        IN /\ Validated(c)
           /\ stamp # <<>>
           /\ Find(stamp[1], "|") > 0
           => (proc[c].raised = "ValueError"
                 <=> SplitFirst(stamp[1], "|")
                       # SplitFirst(proc[c].version, "|"))

\* C7: verify_ria_url returns exactly when the url is not empty and the
\* rewritten url has a scheme starting with "ria+", no fragment and the
\* protocol ssh or file; it then returns the hostname (for ssh; None for
\* file), the path and the rewritten url; otherwise it raises for the first
\* of the checks empty, scheme prefix, fragment, protocol that fails.
C7_VerifyRiaUrl ==
    decoded # <<>> =>
        LET r == decoded[1]
            rewritten == rewrite_url(cfg, url)
            ri == URL(rewritten)
            prefixed == StartsWith(ri.scheme, ria_prefix)
            protocol == SubSeq(ri.scheme, 5, Len(ri.scheme))
            valid == /\ url # <<>>
                     /\ prefixed
                     /\ ri.fragment = <<>>
                     /\ protocol \in {ssh, file}
        IN /\ r.raised = "none" <=> valid
           /\ ~valid => r.raised = "ValueError"
           /\ valid =>
                /\ r.host # <<>> <=> protocol = ssh
                /\ protocol = ssh => r.host = <<ri.hostname>>
                /\ r.path = ri.path
                /\ r.url = rewritten
           /\ url = <<>> => r.why = "Got no URL"
           /\ url # <<>> /\ ~prefixed
                => r.why = "Missing ria+ prefix in final URL"
           /\ url # <<>> /\ prefixed /\ ri.fragment # <<>>
                => r.why = "Unexpected fragment in RIA-store URL"
           /\ url # <<>> /\ prefixed /\ ri.fragment = <<>>
                 /\ protocol \notin {ssh, file}
                => r.why = "Unsupported protocol"

\* C7 witness: a ria+file url has been decoded to no host, its path and
\* itself.
C7_Witness ==
    /\ decoded # <<>>
    /\ url = ria_prefix \o file \o <<":", "/", "/", "/", "p">>
    /\ cfg = {}
    /\ decoded[1].raised = "none"
    /\ decoded[1].host = <<>>
    /\ decoded[1].path = <<"/", "p">>
    /\ decoded[1].url = url

\* C8: from a location nothing has been made of, in every state (between any
\* two steps of any calls) a version stamp exists only if the directories its
\* operation makes exist: error_logs for the store, archives and
\* annex/objects for the dataset.
C8_StampAfterDirectories ==
    \A op \in {"create_store", "create_ds_in_store"} :
        ioFS.files[VersionFileOf(op)] # <<>>
        => DirsOf(op) \subseteq ioFS.dirs

\* C8 witness: the dataset is stamped, and a create_store call that failed
\* at the stamp write has left error_logs without a stamp.
C8_Witness ==
    /\ ioFS.files[DsVersionFile] # <<>>
    /\ ioFS.files[StoreVersionFile] = <<>>
    /\ ErrorLogs \in ioFS.dirs
    /\ \E c \in Callers :
          /\ StoreCall(c)
          /\ proc[c].raised = "IOError"
          /\ proc[c].ops = <<"exists", "mkdir", "write_file">>

\* C9: a caller that found no version file never raises the conflict; when
\* two callers of the same operation both found none and neither met an io
\* failure, both return having written the stamp; and the stamp holds what
\* the last writer wrote.
C9_RaceLastWriterWins ==
    /\ \A c \in Callers :
          proc[c].found = "absent" => proc[c].raised # "ValueError"
    /\ \A c, d \in Callers :
          /\ c # d
          /\ Done(c) /\ Done(d)
          /\ proc[c].op = proc[d].op
          /\ proc[c].found = "absent" /\ proc[d].found = "absent"
          /\ proc[c].raised # "IOError" /\ proc[d].raised # "IOError"
          => /\ proc[c].raised = "none" /\ proc[d].raised = "none"
             /\ proc[c].ops[Len(proc[c].ops)] = "write_file"
             /\ proc[d].ops[Len(proc[d].ops)] = "write_file"
    /\ \A f \in FilePaths :
          stamped[f] # <<>> => ioFS.files[f] = stamped[f]

\* C9 witness: two create_ds_in_store calls with different obj_versions, on a
\* dataset nothing had been made of, both found no version file and both
\* returned, the later write replacing the stamp of the earlier one.
C9_Witness ==
    \E c, d \in Callers :
        /\ DsCall(c) /\ DsCall(d)
        /\ proc[c].before.files[DsVersionFile] = <<>>
        /\ proc[d].before.files[DsVersionFile] = <<>>
        /\ proc[c].found = "absent" /\ proc[d].found = "absent"
        /\ proc[c].raised = "none" /\ proc[d].raised = "none"
        /\ proc[c].version = One /\ proc[d].version = Two
        /\ overwrote
        /\ ioFS.files[DsVersionFile] = <<Two>>

\* C10: when the previous initialisation of a location made its directories
\* and then failed to write the stamp, leaving directories and no stamp, the
\* next initialisation with a known version (that meets no io failure) raises
\* no conflict: it returns, the directories exist and the stamp holds its
\* requested version.
C10_FreshAfterFailedStamp ==
    \A c \in Callers :
        /\ Validated(c)
        /\ proc[c].prev.op = proc[c].op
        /\ proc[c].prev.raised = "IOError"
        /\ proc[c].prev.last = "write_file"
        /\ proc[c].before.files[VersionFileOf(proc[c].op)] = <<>>
        => /\ DirsOf(proc[c].op) \subseteq proc[c].before.dirs
           /\ proc[c].raised = "none"
           /\ DirsOf(proc[c].op) \subseteq ioFS.dirs
           /\ ioFS.files[VersionFileOf(proc[c].op)] = <<proc[c].version>>

====
